---- MODULE Spec2Model ----
(***************************************************************************)
(* Focus Flow (src/focus.py): the Pomodoro timer, the statistics store,    *)
(* the task list and the controller's event loop, as a state machine.      *)
(*                                                                         *)
(* Time is counted in whole seconds.  Python list indices 0..n-1 are the   *)
(* sequence indices 1..n here, and an index that is None is 0.             *)
(***************************************************************************)
EXTENDS Integers, Sequences, FiniteSets, TLC

VARIABLES
    timer,            \* FocusApp.timer: the PomodoroTimer's fields
    ret,              \* what the last PomodoroTimer.update call returned
    elapsed,          \* history: seconds fed to update while running since remaining was last set
    armed,            \* history: the value remaining was last set to by a reset or phase change
    restarted,        \* history: start() was called after update had returned true
    trues,            \* history: number of true returns of update since remaining was last set
                      \* (elapsed and trues stop counting once restarted)
    custom_pomodoro,  \* FocusApp.custom_pomodoro (minutes)
    custom_break,     \* FocusApp.custom_break (minutes)
    mode,             \* FocusApp.mode
    stats,            \* StatsStore.stats
    today,            \* the calendar day datetime.now() falls in
    tasks,            \* TaskStore.tasks
    undo_cache,       \* FocusApp._undo_cache
    mouse,            \* where the pointer is: the pos of the next button event
    pressed,          \* whether the left button is held down
    hover,            \* FocusApp.hover
    dragging_task,    \* FocusApp.dragging_task
    mouse_down_pos,   \* FocusApp.mouse_down_pos
    last_click_pos,   \* FocusApp.last_click_pos
    skip_next_click,  \* FocusApp.skip_next_click
    error,            \* the exception that ended the main loop, "" while it runs
    tg,               \* history: the run of checkbox toggles of one task now under way
    tasks_doc,        \* the file cfg/state.json
    stats_doc,        \* the file cfg/stats.json
    config_doc,       \* the file cfg/config.json
    boot,             \* what FocusApp.__init__ loads next, "run" once it has returned
    fresh,            \* a fresh TaskStore after its load(), Unloaded when there is none
    op,               \* history: what the last step did to a store, "" if nothing
    peak,             \* history: the largest value current_streak has had
    dialog            \* the modal dialog that is open, and what the main thread does meanwhile

timerVars == <<timer, ret, elapsed, armed, restarted, trues>>
appVars == <<custom_pomodoro, custom_break, mode>>
statVars == <<stats, today>>
taskVars == <<tasks, undo_cache>>
inputVars == <<mouse, pressed, hover, dragging_task, mouse_down_pos, last_click_pos, skip_next_click>>
storeVars == <<tasks_doc, stats_doc, config_doc, boot, fresh>>
histVars == <<op, peak>>
uiVars == <<taskVars, inputVars, error, tg, storeVars, histVars>>
vars == <<timerVars, appVars, statVars, uiVars, dialog>>

----------------------------------------------------------------------------
(* Bounds of the model *)

\* focus lengths (minutes) the configuration or the settings dialog may give
SessionMinutes == {5, 25}
\* break lengths (minutes) the configuration or the settings dialog may give
BreakMinutes == {5, 10}
\* frame times (seconds) clock.tick may report
Dts == {0, 300, 1500}
\* completed focus phases after which the model stops completing more
MaxSessions == 4
\* tasks ever added (the list and the undo cache together)
MaxTasks == 2
\* today's points stay within -MaxPoints..MaxPoints
MaxPoints == 4
\* what may be typed into the task dialog's text box ("" is an empty box)
TypedTexts == {"", "a", "b"}
\* what may be typed into the task dialog's points box
Scores == {2}
\* the same two boxes where the claims are about points: one text, and points
\* of either sign (the points box takes any integer)
ScoreTexts == {"", "a"}
ScoreValues == {-1, 2}
\* points as the dialog is meant to give them: at least 1
PointValues == {1, 2}
\* calendar days are 1..MaxDay
MaxDay == 2
\* the longest list of a TaskStore on its own
MaxLen == 3
\* turns of the pump loop a dialog may be waited for
MaxPumps == 2
\* dialogs opened in one run
MaxOpened == 3
\* focus sessions completed before Start is no longer pressed
MaxRuns == 2

----------------------------------------------------------------------------
(* Program constants *)

DEFAULT_POMODORO == 25 * 60
LONG_BREAK == 30 * 60

----------------------------------------------------------------------------
(* PomodoroTimer *)

PomodoroTimer_init ==
    [total |-> DEFAULT_POMODORO, remaining |-> DEFAULT_POMODORO,
     running |-> FALSE, session_count |-> 1, is_break |-> FALSE,
     sessions_completed |-> 0, custom_break |-> 5,
     default_session |-> DEFAULT_POMODORO]

start(t) == [t EXCEPT !.running = TRUE]

stop(t) == [t EXCEPT !.running = FALSE]

\* total is <<>> for the default argument None, <<n>> for a given total
reset(t, total) ==
    LET tot == IF total = <<>> THEN t.total ELSE total[1]
    IN [t EXCEPT !.total = tot, !.remaining = tot, !.running = FALSE]

reset_full(t) ==
    [t EXCEPT !.total = t.default_session, !.remaining = t.default_session,
              !.running = FALSE, !.is_break = FALSE, !.session_count = 1]

\* update, had it left the timer running when it reaches zero
update_keeps_running(t, dt) ==
    IF ~t.running
    THEN [timer |-> t, ret |-> FALSE]
    ELSE IF t.remaining - dt <= 0
         THEN [timer |-> [t EXCEPT !.remaining = 0], ret |-> TRUE]
         ELSE [timer |-> [t EXCEPT !.remaining = t.remaining - dt], ret |-> FALSE]

\* update, had it stopped at zero without reporting it
update_unreported(t, dt) ==
    IF ~t.running
    THEN [timer |-> t, ret |-> FALSE]
    ELSE IF t.remaining - dt <= 0
         THEN [timer |-> [t EXCEPT !.remaining = 0, !.running = FALSE], ret |-> FALSE]
         ELSE [timer |-> [t EXCEPT !.remaining = t.remaining - dt], ret |-> FALSE]

\* the timer after update(dt), and the value returned
update(t, dt) ==
    IF ~t.running
    THEN [timer |-> t, ret |-> FALSE]
    ELSE IF t.remaining - dt <= 0
         THEN [timer |-> [t EXCEPT !.remaining = 0, !.running = FALSE], ret |-> TRUE]
         ELSE [timer |-> [t EXCEPT !.remaining = t.remaining - dt], ret |-> FALSE]

\* complete_session, had it taken the long break one session early
complete_session_early_long(t) ==
    LET t1 == [t EXCEPT !.sessions_completed = @ + 1]
        t2 == IF t1.session_count >= 3
              THEN [t1 EXCEPT !.total = LONG_BREAK, !.session_count = 1]
              ELSE [t1 EXCEPT !.total = t1.custom_break * 60, !.session_count = @ + 1]
        t3 == [t2 EXCEPT !.is_break = TRUE, !.remaining = t2.total, !.running = FALSE]
    IN [t3 EXCEPT !.total = t3.custom_break * 60]

\* complete_session, had it taken the long break only above session_count 4
complete_session_late_long(t) ==
    LET t1 == [t EXCEPT !.sessions_completed = @ + 1]
        t2 == IF t1.session_count > 4
              THEN [t1 EXCEPT !.total = LONG_BREAK, !.session_count = 1]
              ELSE [t1 EXCEPT !.total = t1.custom_break * 60, !.session_count = @ + 1]
        t3 == [t2 EXCEPT !.is_break = TRUE, !.remaining = t2.total, !.running = FALSE]
    IN [t3 EXCEPT !.total = t3.custom_break * 60]

complete_session(t) ==
    LET t1 == [t EXCEPT !.sessions_completed = @ + 1]
        t2 == IF t1.session_count >= 4
              THEN [t1 EXCEPT !.total = LONG_BREAK, !.session_count = 1]
              ELSE [t1 EXCEPT !.total = t1.custom_break * 60, !.session_count = @ + 1]
        t3 == [t2 EXCEPT !.is_break = TRUE, !.remaining = t2.total, !.running = FALSE]
    IN [t3 EXCEPT !.total = t3.custom_break * 60]

start_focus_session(t) ==
    [t EXCEPT !.total = t.default_session, !.is_break = FALSE,
              !.remaining = t.default_session, !.running = FALSE]

\* FocusApp.__init__: the timer as the application configures it
ConfiguredTimer(cp, cb) ==
    LET t1 == [PomodoroTimer_init EXCEPT !.default_session = cp * 60, !.custom_break = cb]
    IN reset(t1, <<cp * 60>>)

----------------------------------------------------------------------------
(* StatsStore *)

StatsStore_init ==
    [total_focus_time |-> 0, total_sessions |-> 0, longest_streak |-> 0,
     current_streak |-> 0, daily_records |-> <<>>, daily_task_scores |-> <<>>]

\* dict.get(key, 0)
Get(d, key) == IF key \in DOMAIN d THEN d[key] ELSE 0

\* d[key] = value
Put(d, key, value) == [k \in DOMAIN d \cup {key} |-> IF k = key THEN value ELSE d[k]]

\* record_session, had it left longest_streak alone
record_session_streak_only(s, duration_seconds, day) ==
    [s EXCEPT !.total_focus_time = @ + duration_seconds,
              !.total_sessions = @ + 1,
              !.current_streak = @ + 1,
              !.daily_records = Put(@, day, Get(@, day) + 1)]

record_session(s, duration_seconds, day) ==
    LET streak == s.current_streak + 1
    IN [s EXCEPT !.total_focus_time = @ + duration_seconds,
                 !.total_sessions = @ + 1,
                 !.current_streak = streak,
                 !.longest_streak = IF streak > @ THEN streak ELSE @,
                 !.daily_records = Put(@, day, Get(@, day) + 1)]

Max(a, b) == IF a >= b THEN a ELSE b

\* record_task_completion, had it stored the score instead of adding it
record_task_completion_overwrite(s, score, day) ==
    [s EXCEPT !.daily_task_scores = Put(@, day, score)]

record_task_completion(s, score, day) ==
    [s EXCEPT !.daily_task_scores = Put(@, day, Get(@, day) + score)]

\* deduct_task_score, had it made an entry for a day that has none
deduct_task_score_creating(s, score, day) ==
    [s EXCEPT !.daily_task_scores = Put(@, day, Max(0, Get(@, day) - score))]

deduct_task_score(s, score, day) ==
    IF day \in DOMAIN s.daily_task_scores
    THEN [s EXCEPT !.daily_task_scores = Put(@, day, Max(0, @[day] - score))]
    ELSE s

\* FocusApp._get_today_score
TodayScore == Get(stats.daily_task_scores, today)

----------------------------------------------------------------------------
(* Tasks, pointer positions and dialogs *)

None == 0

\* Task(text, complete, score)
Task(text, complete, score) == [text |-> text, complete |-> complete, score |-> score]

\* A pointer position, as far as the controller tells positions apart: over the
\* checkbox or the rest of row k of the task list (rows of one-line tasks, all
\* 28 pixels high), over a button, or over nothing ("gap").
RowPos(area, k) == [area |-> area, row |-> k]
Btn(name) == [area |-> name, row |-> 0]
Gap == [area |-> "gap", row |-> 0]
\* mouse_down_pos = None
NoPos == [area |-> "none", row |-> 0]

TaskPositions == {RowPos(a, k) : a \in {"box", "text"}, k \in 1..MaxTasks}
TimerButtons == {Btn(b) : b \in {"start", "custom", "reset"}}
ModeButtons == {Btn(b) : b \in {"instructions", "stats", "back"}}

task_at(ts, pos) ==
    IF pos.area \in {"box", "text"} /\ pos.row <= Len(ts) THEN pos.row ELSE None

\* list.pop(i), had it left the item in the list
Remove_keeping(ts, i) == ts

\* list.pop(i) leaves this list
Remove(ts, i) == SubSeq(ts, 1, i - 1) \o SubSeq(ts, i + 1, Len(ts))

\* list.insert(i, x)
Insert(ts, i, x) ==
    IF i > Len(ts) THEN Append(ts, x)
    ELSE SubSeq(ts, 1, i - 1) \o <<x>> \o SubSeq(ts, i, Len(ts))

\* the release after a drag, had it allowed for the shift the pop causes
reorder_shifted(ts, i, j) == Insert(Remove(ts, i), IF i < j THEN j - 1 ELSE j, ts[i])

\* the release after a drag: pop at i, insert at j
reorder(ts, i, j) == Insert(Remove(ts, i), j, ts[i])

\* what Dialogs.multiline_task_with_score returns: <<>> is None
multiline_task_with_score(text, score, ok) ==
    IF ok /\ text # "" THEN <<text, score>> ELSE <<>>

\* what Dialogs.custom_session_break returns: <<>> is None
custom_session_break(session_min, break_min, ok) ==
    IF ok THEN <<session_min, break_min>> ELSE <<>>

TaskDialogResults(texts, scores) ==
    {multiline_task_with_score(tx, sc, ok) : tx \in texts, sc \in scores, ok \in BOOLEAN}

SettingsDialogResults ==
    {custom_session_break(sm, bm, ok) : sm \in SessionMinutes, bm \in BreakMinutes, ok \in BOOLEAN}

\* FocusApp.edit_or_toggle(mouse) with self.hover = hv: the task list and the
\* stats it leaves, whether it toggled a task, and the exception it raised
edit_or_toggle(ts, st, hv, pos, day) ==
    IF hv = None
    THEN [err |-> "", tasks |-> ts, stats |-> st, toggled |-> FALSE]
    ELSE IF hv > Len(ts)
    THEN [err |-> "IndexError", tasks |-> ts, stats |-> st, toggled |-> FALSE]
    ELSE IF pos.area = "box" /\ pos.row = hv
    THEN [err |-> "",
          tasks |-> [ts EXCEPT ![hv].complete = ~@],
          stats |-> IF ~ts[hv].complete
                    THEN record_task_completion(st, ts[hv].score, day)
                    ELSE deduct_task_score(st, ts[hv].score, day),
          toggled |-> TRUE]
    ELSE [err |-> "", tasks |-> ts, stats |-> st, toggled |-> FALSE]

----------------------------------------------------------------------------
(* The files under cfg/ and the stores' load and save *)

\* a file: absent, not parseable as JSON, or holding a JSON object
NoFile == [kind |-> "none"]
Garbage == [kind |-> "garbage"]
Json(v) == [kind |-> "json", value |-> v]

\* the JSON object {}
EmptyObject == [k \in {} |-> 0]

\* dict.get(key, default)
GetOr(d, key, default) == IF key \in DOMAIN d THEN d[key] ELSE default

\* t.__dict__ of a Task, had the score been left out of it
Task_dict_no_score(t) == [text |-> t.text, complete |-> t.complete]

\* t.__dict__ of a Task
Task_dict(t) == [text |-> t.text, complete |-> t.complete, score |-> t.score]

\* Task(**d) raises TypeError without the key text or with a key that is no field
Task_kwargs_ok(d) == "text" \in DOMAIN d /\ DOMAIN d \subseteq {"text", "complete", "score"}

\* Task(**d): complete and score have defaults
Task_kwargs(d) == Task(d.text, GetOr(d, "complete", FALSE), GetOr(d, "score", 10))

\* the file TaskStore.save writes for the list ts
TaskStore_save(ts) == Json([tasks |-> [i \in 1..Len(ts) |-> Task_dict(ts[i])]])

\* TaskStore.load on a store holding ts: the exception raised and the list left
TaskStore_load(ts, file) ==
    IF file.kind = "none" THEN [err |-> "", tasks |-> ts]
    ELSE IF file.kind = "garbage" THEN [err |-> "JSONDecodeError", tasks |-> ts]
    ELSE LET items == GetOr(file.value, "tasks", <<>>)
         IN IF \E i \in 1..Len(items) : ~Task_kwargs_ok(items[i])
            THEN [err |-> "TypeError", tasks |-> ts]
            ELSE [err |-> "", tasks |-> [i \in 1..Len(items) |-> Task_kwargs(items[i])]]

\* the file StatsStore.save writes for the stats s
StatsStore_save(s) == Json(s)

\* StatsStore.load on a store holding s: the exception raised, the stats and
\* the file left (load ends with save())
StatsStore_load(s, file) ==
    IF file.kind = "garbage" THEN [err |-> "JSONDecodeError", stats |-> s, file |-> file]
    ELSE LET s1 == IF file.kind = "none" THEN s
                   ELSE IF "daily_task_scores" \in DOMAIN file.value THEN file.value
                   ELSE Put(file.value, "daily_task_scores", <<>>)
         IN [err |-> "", stats |-> s1, file |-> StatsStore_save(s1)]

\* the file FocusApp._save_config writes
save_config(cp, cb) == Json([session_minutes |-> cp, break_minutes |-> cb])

\* FocusApp._load_config: the exception that leaves it (it catches and prints
\* every exception of the read) and the minutes it sets
load_config(file) ==
    LET cp == DEFAULT_POMODORO \div 60
        cb == 5
    IN IF file.kind = "json"
       THEN [err |-> "",
             custom_pomodoro |-> GetOr(file.value, "session_minutes", cp),
             custom_break |-> GetOr(file.value, "break_minutes", cb)]
       ELSE [err |-> "", custom_pomodoro |-> cp, custom_break |-> cb]

\* no fresh TaskStore has been loaded
Unloaded == [loaded |-> FALSE]

\* StatsStore.record_session on stats that may lack keys: the KeyError raised
\* at the first key missing, and the stats as that leaves them
record_session_or_raise(s, duration_seconds, day) ==
    LET raise(x) == [err |-> "KeyError", stats |-> x]
    IN IF "total_focus_time" \notin DOMAIN s THEN raise(s)
       ELSE LET s1 == [s EXCEPT !.total_focus_time = @ + duration_seconds]
       IN IF "total_sessions" \notin DOMAIN s THEN raise(s1)
       ELSE LET s2 == [s1 EXCEPT !.total_sessions = @ + 1]
       IN IF "current_streak" \notin DOMAIN s THEN raise(s2)
       ELSE LET s3 == [s2 EXCEPT !.current_streak = @ + 1]
       IN IF "longest_streak" \notin DOMAIN s THEN raise(s3)
       ELSE LET s4 == [s3 EXCEPT !.longest_streak = IF s3.current_streak > @
                                                     THEN s3.current_streak ELSE @]
       IN IF "daily_records" \notin DOMAIN s THEN raise(s4)
       ELSE [err |-> "", stats |-> record_session(s, duration_seconds, day)]

\* record_task_completion and deduct_task_score on stats that may lack the key
record_task_completion_or_raise(s, score, day) ==
    IF "daily_task_scores" \notin DOMAIN s THEN [err |-> "KeyError", stats |-> s]
    ELSE [err |-> "", stats |-> record_task_completion(s, score, day)]

deduct_task_score_or_raise(s, score, day) ==
    IF "daily_task_scores" \notin DOMAIN s THEN [err |-> "KeyError", stats |-> s]
    ELSE [err |-> "", stats |-> deduct_task_score(s, score, day)]

----------------------------------------------------------------------------
(* History of the countdown, kept beside the timer *)

\* remaining has been set afresh: a new countdown begins
Arm(t) ==
    /\ elapsed' = 0
    /\ armed' = t.remaining
    /\ restarted' = FALSE
    /\ trues' = 0

----------------------------------------------------------------------------
(* The PomodoroTimer's methods, called in any order *)

CallStart ==
    /\ timer' = start(timer)
    /\ restarted' = (restarted \/ trues > 0)
    /\ UNCHANGED <<dialog, ret, elapsed, armed, trues, appVars, statVars, uiVars>>

CallStop ==
    /\ timer' = stop(timer)
    /\ UNCHANGED <<dialog, ret, elapsed, armed, restarted, trues, appVars, statVars, uiVars>>

CallReset(total) ==
    /\ timer' = reset(timer, total)
    /\ Arm(timer')
    /\ UNCHANGED <<dialog, ret, appVars, statVars, uiVars>>

CallResetFull ==
    /\ timer' = reset_full(timer)
    /\ Arm(timer')
    /\ UNCHANGED <<dialog, ret, appVars, statVars, uiVars>>

CallUpdate(dt) ==
    LET u == update(timer, dt)
    IN /\ timer' = u.timer
       /\ ret' = u.ret
       /\ elapsed' = IF timer.running /\ ~restarted THEN elapsed + dt ELSE elapsed
       /\ trues' = IF u.ret /\ ~restarted THEN trues + 1 ELSE trues
       /\ UNCHANGED <<dialog, armed, restarted, appVars, statVars, uiVars>>

CallCompleteSession ==
    /\ timer.sessions_completed < MaxSessions
    /\ timer' = complete_session(timer)
    /\ Arm(timer')
    /\ UNCHANGED <<dialog, ret, appVars, statVars, uiVars>>

CallStartFocusSession ==
    /\ timer' = start_focus_session(timer)
    /\ Arm(timer')
    /\ UNCHANGED <<dialog, ret, appVars, statVars, uiVars>>

----------------------------------------------------------------------------
(* History of the toggles, kept beside the task list *)

\* no run of toggles is under way
NoRun == [task |-> None, hist |-> <<>>, cl |-> <<>>]

\* The last two entries of a sequence with x appended
LastTwo(q, x) == IF q = <<>> THEN <<x>> ELSE <<q[Len(q)], x>>

\* A toggle of task i: today's score before it joins the run's history, with
\* whether it was an un-tick that could not take the whole score off today's
\* entry (no entry, or the floor at 0)
Toggled(i) ==
    LET t == tasks[i]
        short == t.complete /\ (today \notin DOMAIN stats.daily_task_scores
                                \/ stats.daily_task_scores[today] - t.score < 0)
        run == IF tg.task = i THEN tg ELSE NoRun
    IN tg' = [task |-> i, hist |-> LastTwo(run.hist, TodayScore), cl |-> LastTwo(run.cl, short)]

\* Any other step: a change of the list, the stats or the day ends the run
NotToggled ==
    tg' = IF tasks' = tasks /\ stats' = stats /\ today' = today THEN tg ELSE NoRun

----------------------------------------------------------------------------
(* FocusApp: the handlers of the main loop *)

\* the settings, had they been left for the next reset to apply
ApplySettings_deferred(t, session_min, break_min) ==
    [t EXCEPT !.default_session = session_min * 60, !.custom_break = break_min]

\* the Settings button's dialog was accepted
ApplySettings(t, session_min, break_min) ==
    LET t1 == [t EXCEPT !.default_session = session_min * 60]
        t2 == reset(t1, <<session_min * 60>>)
    IN [t2 EXCEPT !.custom_break = break_min]

\* update returned true: the timer moves to its next phase
NextPhase(t, cp, cb) ==
    IF t.is_break
    THEN [start_focus_session(t) EXCEPT !.total = cp * 60, !.remaining = cp * 60]
    ELSE [complete_session(t) EXCEPT !.total = cb * 60, !.remaining = cb * 60]

\* pg.MOUSEMOTION to position p; far: the pointer is more than 5 pixels from
\* mouse_down_pos on one axis (rows lie 10 pixels apart)
MouseMotion(p, far) ==
    /\ error = ""
    /\ p.row # mouse_down_pos.row => far
    /\ mouse' = p
    /\ hover' = IF mode = "MAIN" THEN task_at(tasks, p) ELSE None
    /\ dragging_task' = IF mouse_down_pos # NoPos /\ hover' # None /\ far
                        THEN task_at(tasks, mouse_down_pos)
                        ELSE dragging_task
    /\ op' = ""
    /\ UNCHANGED <<dialog, timerVars, appVars, statVars, taskVars, pressed, mouse_down_pos,
                   last_click_pos, skip_next_click, error, tg, storeVars, peak>>

\* pg.MOUSEBUTTONDOWN, button 1, at the pointer; quick: within
\* double_click_threshold of the last click; task_res, set_res: what the task
\* dialog and the settings dialog return if this press opens them
LeftDown(quick, task_res, set_res) ==
    /\ error = ""
    /\ ~pressed
    /\ pressed' = TRUE
    /\ IF mode = "SPLASH"
       THEN /\ mode' = "MAIN"
            /\ op' = ""
            /\ UNCHANGED <<timerVars, custom_pomodoro, custom_break, statVars, taskVars,
                           mouse, hover, dragging_task, mouse_down_pos, last_click_pos,
                           skip_next_click, error, tg, storeVars, peak>>
       ELSE IF skip_next_click
       THEN /\ skip_next_click' = FALSE
            /\ op' = ""
            /\ UNCHANGED <<timerVars, appVars, statVars, taskVars, mouse, hover,
                           dragging_task, mouse_down_pos, last_click_pos, error, tg,
                           storeVars, peak>>
       ELSE LET idx == task_at(tasks, mouse)
                dbl == idx # None /\ last_click_pos = idx /\ quick
                edited == dbl /\ task_res # <<>>
                tasks1 == IF edited
                          THEN [tasks EXCEPT ![idx].text = task_res[1],
                                             ![idx].score = task_res[2]]
                          ELSE tasks
                main == mode = "MAIN"
                onTask == main /\ idx # None /\ ~dbl
                btn(b) == main /\ ~onTask /\ mouse.area = b
                settings == btn("custom") /\ set_res # <<>>
                added == btn("add") /\ task_res # <<>>
            IN /\ skip_next_click' = dbl
               /\ last_click_pos' = IF idx = None THEN last_click_pos
                                    ELSE IF dbl THEN None ELSE idx
               /\ mouse_down_pos' = IF edited THEN NoPos ELSE mouse
               /\ dragging_task' = IF onTask /\ mouse.area # "box" THEN idx
                                   ELSE IF edited THEN None ELSE dragging_task
               /\ tasks' = IF added
                           THEN Append(tasks1, Task(task_res[1], FALSE, task_res[2]))
                           ELSE tasks1
               /\ tasks_doc' = IF edited \/ added THEN TaskStore_save(tasks') ELSE tasks_doc
               /\ op' = IF edited THEN "edit" ELSE IF added THEN "add" ELSE ""
               /\ timer' = IF btn("start")
                           THEN (IF timer.running THEN stop(timer) ELSE start(timer))
                           ELSE IF settings
                           THEN ApplySettings(timer, set_res[1], set_res[2])
                           ELSE IF btn("reset") THEN reset_full(timer)
                           ELSE timer
               /\ custom_pomodoro' = IF settings THEN set_res[1] ELSE custom_pomodoro
               /\ custom_break' = IF settings THEN set_res[2] ELSE custom_break
               /\ config_doc' = IF settings THEN save_config(set_res[1], set_res[2])
                                ELSE config_doc
               /\ mode' = IF btn("instructions") THEN "INSTRUCTIONS"
                          ELSE IF btn("stats") THEN "STATS"
                          ELSE IF mode \in {"INSTRUCTIONS", "STATS"} /\ mouse.area = "back"
                          THEN "MAIN"
                          ELSE mode
               /\ IF settings \/ btn("reset")
                  THEN Arm(timer')
                  ELSE /\ restarted' = (restarted \/ (btn("start") /\ ~timer.running /\ trues > 0))
                       /\ UNCHANGED <<elapsed, armed, trues>>
               /\ UNCHANGED <<ret, statVars, undo_cache, mouse, hover, error,
                              stats_doc, boot, fresh, peak>>
               /\ NotToggled

\* pg.MOUSEBUTTONUP, button 1, at the pointer
LeftUp ==
    /\ error = ""
    /\ pressed
    /\ pressed' = FALSE
    /\ LET idx == task_at(tasks, mouse)
       IN IF dragging_task # None /\ idx # None /\ dragging_task # idx
          THEN IF dragging_task > Len(tasks)
               THEN /\ error' = "IndexError"
                    /\ op' = ""
                    /\ UNCHANGED <<taskVars, stats, dragging_task, mouse_down_pos, tg,
                                   tasks_doc, stats_doc>>
               ELSE /\ tasks' = reorder(tasks, dragging_task, idx)
                    /\ tasks_doc' = TaskStore_save(tasks')
                    /\ op' = "reorder"
                    /\ dragging_task' = None
                    /\ mouse_down_pos' = NoPos
                    /\ tg' = NoRun
                    /\ UNCHANGED <<undo_cache, stats, error, stats_doc>>
          ELSE IF dragging_task = None /\ idx # None /\ mode = "MAIN"
          THEN LET r == edit_or_toggle(tasks, stats, hover, mouse, today)
               IN /\ error' = r.err
                  /\ tasks' = r.tasks
                  /\ stats' = r.stats
                  /\ IF r.toggled THEN Toggled(hover) ELSE UNCHANGED tg
                  /\ tasks_doc' = IF r.toggled THEN TaskStore_save(tasks') ELSE tasks_doc
                  /\ stats_doc' = IF r.toggled THEN StatsStore_save(stats') ELSE stats_doc
                  /\ op' = IF r.toggled THEN "toggle" ELSE ""
                  /\ dragging_task' = None
                  /\ mouse_down_pos' = IF r.err = "" THEN NoPos ELSE mouse_down_pos
                  /\ UNCHANGED undo_cache
          ELSE /\ dragging_task' = None
               /\ mouse_down_pos' = NoPos
               /\ op' = ""
               /\ UNCHANGED <<taskVars, stats, error, tg, tasks_doc, stats_doc>>
    /\ UNCHANGED <<dialog, timerVars, appVars, today, mouse, hover, last_click_pos, skip_next_click,
                   config_doc, boot, fresh, peak>>

\* pg.MOUSEBUTTONDOWN, button 3; yes: the answer to "Delete Task?"
RightDown(yes) ==
    /\ error = ""
    /\ IF mode = "SPLASH"
       THEN /\ mode' = "MAIN"
            /\ op' = ""
            /\ UNCHANGED <<taskVars, error, tg, tasks_doc>>
       ELSE IF hover # None /\ mode = "MAIN" /\ yes
       THEN IF hover > Len(tasks)
            THEN /\ error' = "IndexError"
                 /\ op' = ""
                 /\ UNCHANGED <<mode, taskVars, tg, tasks_doc>>
            ELSE /\ undo_cache' = Append(undo_cache, tasks[hover])
                 /\ tasks' = Remove(tasks, hover)
                 /\ tasks_doc' = TaskStore_save(tasks')
                 /\ op' = "delete"
                 /\ tg' = NoRun
                 /\ UNCHANGED <<mode, error>>
       ELSE /\ op' = ""
            /\ UNCHANGED <<mode, taskVars, error, tg, tasks_doc>>
    /\ UNCHANGED <<timerVars, custom_pomodoro, custom_break, statVars, inputVars,
                   stats_doc, config_doc, boot, fresh, peak>>

\* Ctrl+Z, had it restored the oldest deleted task
CtrlZ_oldest ==
    /\ error = ""
    /\ IF undo_cache # <<>>
       THEN /\ tasks' = Append(tasks, undo_cache[1])
            /\ undo_cache' = SubSeq(undo_cache, 2, Len(undo_cache))
            /\ tasks_doc' = TaskStore_save(tasks')
            /\ op' = "undo"
            /\ tg' = NoRun
       ELSE /\ op' = ""
            /\ UNCHANGED <<taskVars, tg, tasks_doc>>
    /\ UNCHANGED <<dialog, timerVars, appVars, statVars, inputVars, error,
                   stats_doc, config_doc, boot, fresh, peak>>

\* Ctrl+Z, had it left the file as it was
CtrlZ_unsaved ==
    /\ error = ""
    /\ IF undo_cache # <<>>
       THEN /\ tasks' = Append(tasks, undo_cache[Len(undo_cache)])
            /\ undo_cache' = SubSeq(undo_cache, 1, Len(undo_cache) - 1)
            /\ op' = "undo"
            /\ tg' = NoRun
            /\ UNCHANGED tasks_doc
       ELSE /\ op' = ""
            /\ UNCHANGED <<taskVars, tg, tasks_doc>>
    /\ UNCHANGED <<dialog, timerVars, appVars, statVars, inputVars, error,
                   stats_doc, config_doc, boot, fresh, peak>>

\* pg.KEYDOWN, Ctrl+Z
CtrlZ ==
    /\ error = ""
    /\ IF undo_cache # <<>>
       THEN /\ tasks' = Append(tasks, undo_cache[Len(undo_cache)])
            /\ undo_cache' = SubSeq(undo_cache, 1, Len(undo_cache) - 1)
            /\ tasks_doc' = TaskStore_save(tasks')
            /\ op' = "undo"
            /\ tg' = NoRun
       ELSE /\ op' = ""
            /\ UNCHANGED <<taskVars, tg, tasks_doc>>
    /\ UNCHANGED <<dialog, timerVars, appVars, statVars, inputVars, error,
                   stats_doc, config_doc, boot, fresh, peak>>

\* the timer update, had it recorded the session after moving to the next phase
Tick_record_late(dt) ==
    /\ error = ""
    /\ IF mode = "MAIN"
       THEN LET u == update(timer, dt)
            IN /\ ret' = u.ret
               /\ IF u.ret
                  THEN /\ stats' = record_session(stats, NextPhase(u.timer, custom_pomodoro, custom_break).total, today)
                       /\ stats_doc' = StatsStore_save(stats')
                       /\ peak' = Max(peak, stats'.current_streak)
                       /\ timer' = NextPhase(u.timer, custom_pomodoro, custom_break)
                       /\ Arm(timer')
                  ELSE /\ timer' = u.timer
                       /\ elapsed' = IF timer.running /\ ~restarted THEN elapsed + dt ELSE elapsed
                       /\ UNCHANGED <<stats, armed, restarted, trues, stats_doc, peak>>
       ELSE UNCHANGED <<timerVars, stats, stats_doc, peak>>
    /\ op' = ""
    /\ UNCHANGED <<appVars, today, taskVars, inputVars, error,
                   tasks_doc, config_doc, boot, fresh>>
    /\ NotToggled

\* the timer update, had it run on every screen
Tick_any_mode(dt) ==
    /\ error = ""
    /\ IF mode \in {"SPLASH", "MAIN", "INSTRUCTIONS", "STATS"}
       THEN LET u == update(timer, dt)
            IN /\ ret' = u.ret
               /\ IF u.ret
                  THEN /\ stats' = record_session(stats, u.timer.total, today)
                       /\ stats_doc' = StatsStore_save(stats')
                       /\ peak' = Max(peak, stats'.current_streak)
                       /\ timer' = NextPhase(u.timer, custom_pomodoro, custom_break)
                       /\ Arm(timer')
                  ELSE /\ timer' = u.timer
                       /\ elapsed' = IF timer.running /\ ~restarted THEN elapsed + dt ELSE elapsed
                       /\ UNCHANGED <<stats, armed, restarted, trues, stats_doc, peak>>
       ELSE UNCHANGED <<timerVars, stats, stats_doc, peak>>
    /\ op' = ""
    /\ UNCHANGED <<appVars, today, taskVars, inputVars, error,
                   tasks_doc, config_doc, boot, fresh>>
    /\ NotToggled

\* the end of a frame that took dt seconds: the timer update
Tick(dt) ==
    /\ error = ""
    /\ IF mode = "MAIN"
       THEN LET u == update(timer, dt)
            IN /\ ret' = u.ret
               /\ IF u.ret
                  THEN /\ stats' = record_session(stats, u.timer.total, today)
                       /\ stats_doc' = StatsStore_save(stats')
                       /\ peak' = Max(peak, stats'.current_streak)
                       /\ timer' = NextPhase(u.timer, custom_pomodoro, custom_break)
                       /\ Arm(timer')
                  ELSE /\ timer' = u.timer
                       /\ elapsed' = IF timer.running /\ ~restarted THEN elapsed + dt ELSE elapsed
                       /\ UNCHANGED <<stats, armed, restarted, trues, stats_doc, peak>>
       ELSE UNCHANGED <<timerVars, stats, stats_doc, peak>>
    /\ op' = ""
    /\ UNCHANGED <<appVars, today, taskVars, inputVars, error,
                   tasks_doc, config_doc, boot, fresh>>
    /\ NotToggled

\* no dialog is open and the main thread runs the main loop; opened counts
\* the dialogs opened so far
NoDialog == [func |-> "", main |-> "", alive |-> FALSE, value |-> <<>>, pumps |-> 0, opened |-> 0]

\* FocusApp._load_config: the defaults, or what cfg/config.json holds
ConfigDefaults ==
    /\ config_doc = NoFile
    /\ custom_pomodoro = load_config(config_doc).custom_pomodoro
    /\ custom_break = load_config(config_doc).custom_break

ConfigLoaded ==
    /\ config_doc \in {save_config(sm, bm) : sm \in SessionMinutes, bm \in BreakMinutes}
    /\ custom_pomodoro = load_config(config_doc).custom_pomodoro
    /\ custom_break = load_config(config_doc).custom_break

\* the fields as the constructors leave them
InitFields ==
    /\ mode = "SPLASH"
    /\ stats = StatsStore_init
    /\ today = 1
    /\ tasks = <<>>
    /\ undo_cache = <<>>
    /\ mouse = Gap
    /\ pressed = FALSE
    /\ hover = None
    /\ dragging_task = None
    /\ mouse_down_pos = NoPos
    /\ last_click_pos = None
    /\ skip_next_click = FALSE
    /\ error = ""
    /\ tg = NoRun
    /\ fresh = Unloaded
    /\ op = ""
    /\ peak = 0
    /\ dialog = NoDialog

\* FocusApp.__init__ has returned, having found no file of tasks or stats
InitApp ==
    /\ InitFields
    /\ tasks_doc = NoFile
    /\ stats_doc = StatsStore_load(stats, NoFile).file
    /\ boot = "run"

InitTimer ==
    /\ timer = ConfiguredTimer(custom_pomodoro, custom_break)
    /\ ret = FALSE
    /\ elapsed = 0
    /\ armed = timer.remaining
    /\ restarted = FALSE
    /\ trues = 0

InitPomodoro == ConfigLoaded /\ InitApp /\ InitTimer

NextPomodoro ==
    \/ CallStart
    \/ CallStop
    \/ \E total \in {<<>>} \cup {<<m * 60>> : m \in SessionMinutes} : CallReset(total)
    \/ CallResetFull
    \/ \E dt \in Dts : CallUpdate(dt)
    \/ CallCompleteSession
    \/ CallStartFocusSession

\* a PomodoroTimer on its own, its methods called in any order
SpecPomodoro == InitPomodoro /\ [][NextPomodoro]_vars

----------------------------------------------------------------------------
(* The application driven over its timer: the pointer moves between the    *)
(* timer's buttons and the screen buttons, and frames end.                 *)

InitTimerApp == ConfigLoaded /\ InitApp /\ InitTimer

NextTimer ==
    \/ \E p \in TimerButtons, far \in BOOLEAN : MouseMotion(p, far)
    \/ \E set_res \in SettingsDialogResults :
          /\ (set_res # <<>> => mouse.area = "custom")
          /\ LeftDown(FALSE, <<>>, set_res)
          /\ UNCHANGED dialog
    \/ LeftUp
    \/ RightDown(TRUE) /\ UNCHANGED dialog
    \/ \E dt \in Dts :
          /\ Tick(dt)
          /\ timer'.sessions_completed <= MaxSessions
          /\ UNCHANGED dialog

SpecTimer == InitTimerApp /\ [][NextTimer]_vars

----------------------------------------------------------------------------
(* The application driven over its task list: the pointer moves between    *)
(* the rows, the Add Task button and the screen buttons.                   *)

Init == ConfigDefaults /\ InitApp /\ InitTimer

PointsBounded ==
    LET scores == GetOr(stats, "daily_task_scores", <<>>)
    IN \A d \in DOMAIN scores : scores[d] \in -MaxPoints..MaxPoints

\* the events of the task list, the task dialog taking these texts and points
TaskEvents(texts, scores) ==
    \/ \E p \in TaskPositions \cup {Btn("add")}, far \in BOOLEAN : MouseMotion(p, far)
    \/ \E quick \in BOOLEAN, task_res \in TaskDialogResults(texts, scores) :
          /\ (quick => mouse.area \in {"box", "text"})
          /\ (task_res # <<>> => mouse.area \in {"box", "text", "add"})
          /\ LeftDown(quick, task_res, <<>>)
          /\ Len(tasks') + Len(undo_cache') <= MaxTasks
          /\ UNCHANGED dialog
    \/ LeftUp /\ PointsBounded'
    \/ \E yes \in BOOLEAN : RightDown(yes) /\ UNCHANGED dialog
    \/ CtrlZ

Next == TaskEvents(TypedTexts, Scores)

Spec == Init /\ [][Next]_vars

NextScore == TaskEvents(ScoreTexts, ScoreValues)

\* the same, with tasks of one text and points of either sign
SpecScore == Init /\ [][NextScore]_vars

NextPoints == TaskEvents(ScoreTexts, PointValues)

\* the same, with tasks of one text and points of 1 or 2
SpecPoints == Init /\ [][NextPoints]_vars

----------------------------------------------------------------------------
(* The StatsStore's methods, called in any order, over the days *)

\* a method of the store returned r: a method that raises does not reach save()
StatsCalled(r, name) ==
    /\ error' = r.err
    /\ stats' = r.stats
    /\ stats_doc' = IF r.err = "" THEN StatsStore_save(r.stats) ELSE stats_doc
    /\ peak' = Max(peak, GetOr(r.stats, "current_streak", 0))
    /\ op' = name
    /\ UNCHANGED <<dialog, timerVars, appVars, today, taskVars, inputVars, tg,
                   tasks_doc, config_doc, boot, fresh>>

CallRecordSession(duration_seconds) ==
    /\ boot = "run" /\ error = ""
    /\ GetOr(stats, "total_sessions", 0) < MaxSessions
    /\ StatsCalled(record_session_or_raise(stats, duration_seconds, today), "record_session")

CallRecordTaskCompletion(score) ==
    /\ boot = "run" /\ error = ""
    /\ StatsCalled(record_task_completion_or_raise(stats, score, today), "record_task_completion")
    /\ PointsBounded'

CallDeductTaskScore(score) ==
    /\ boot = "run" /\ error = ""
    /\ StatsCalled(deduct_task_score_or_raise(stats, score, today), "deduct_task_score")

\* datetime.now() passes midnight
Midnight ==
    /\ boot = "run" /\ error = ""
    /\ today < MaxDay
    /\ today' = today + 1
    /\ op' = ""
    /\ UNCHANGED <<dialog, timerVars, appVars, stats, taskVars, inputVars, error, tg, storeVars, peak>>

StatsEvents ==
    \/ \E m \in SessionMinutes : CallRecordSession(m * 60)
    \/ \E score \in PointValues : CallRecordTaskCompletion(score)
    \/ \E score \in PointValues : CallDeductTaskScore(score)
    \/ Midnight

NextStats == StatsEvents

\* a StatsStore on its own, its methods called in any order
SpecStats == Init /\ [][NextStats]_vars

----------------------------------------------------------------------------
(* A TaskStore on its own: tasks are appended and moved, the list is saved *)
(* and a fresh TaskStore loads the file.                                   *)

\* the tasks such a store is given
StoreTasks == {Task("a", FALSE, 10), Task("a", TRUE, 5), Task("b", FALSE, 5)}

\* a step of the store on its own
StoreStep(name) ==
    /\ boot = "run" /\ error = ""
    /\ op' = name
    /\ UNCHANGED <<dialog, timerVars, appVars, statVars, undo_cache, inputVars, error, tg,
                   stats_doc, config_doc, boot, peak>>

\* self.tasks.tasks.append(t)
CallAppend(t) ==
    /\ StoreStep("append")
    /\ Len(tasks) < MaxLen
    /\ tasks' = Append(tasks, t)
    /\ fresh' = Unloaded
    /\ UNCHANGED tasks_doc

\* task_to_move = self.tasks.tasks.pop(i); self.tasks.tasks.insert(j, task_to_move)
CallReorder(i, j) ==
    /\ StoreStep("reorder")
    /\ i \in 1..Len(tasks) /\ j \in 1..Len(tasks) /\ i # j
    /\ tasks' = reorder(tasks, i, j)
    /\ fresh' = Unloaded
    /\ UNCHANGED tasks_doc

\* self.tasks.save()
CallSave ==
    /\ StoreStep("save")
    /\ tasks_doc' = TaskStore_save(tasks)
    /\ fresh' = Unloaded
    /\ UNCHANGED tasks

\* TaskStore().load() on a fresh store; after_save: save() was the step before
FreshLoad ==
    /\ StoreStep("load")
    /\ LET r == TaskStore_load(<<>>, tasks_doc)
       IN fresh' = [loaded |-> TRUE, err |-> r.err, tasks |-> r.tasks, after_save |-> op = "save"]
    /\ UNCHANGED <<tasks, tasks_doc>>

NextTasks ==
    \/ \E t \in StoreTasks : CallAppend(t)
    \/ \E i, j \in 1..MaxLen : CallReorder(i, j)
    \/ CallSave
    \/ FreshLoad

SpecTasks == Init /\ [][NextTasks]_vars

----------------------------------------------------------------------------
(* FocusApp.__init__ over the files it finds: it loads the configuration,  *)
(* the tasks and the stats in turn, and the stats are then used.           *)

AggregateKeys ==
    {"total_focus_time", "total_sessions", "longest_streak", "current_streak",
     "daily_records", "daily_task_scores"}

\* stats as an earlier run has saved them
SavedStats == record_task_completion(record_session(StatsStore_init, DEFAULT_POMODORO, 1), 2, 1)

\* the JSON object d with only the keys in K
Restrict(d, K) == [k \in K |-> d[k]]

\* what cfg/config.json, cfg/state.json and cfg/stats.json may hold at startup
ConfigFiles == {NoFile, Garbage, Json(EmptyObject), save_config(5, 10)}
TaskFiles == {NoFile, Garbage, Json(EmptyObject), TaskStore_save(<<Task("a", TRUE, 5)>>)}
StatsFiles == {NoFile, Garbage} \cup {Json(Restrict(SavedStats, K)) : K \in SUBSET AggregateKeys}

\* FocusApp.__init__ begins; before _load_config has run, the minutes and the
\* timer stand at their defaults
InitBoot ==
    /\ InitFields
    /\ boot = "config"
    /\ config_doc \in ConfigFiles
    /\ tasks_doc \in TaskFiles
    /\ stats_doc \in StatsFiles
    /\ custom_pomodoro = DEFAULT_POMODORO \div 60
    /\ custom_break = 5
    /\ timer = PomodoroTimer_init
    /\ ret = FALSE
    /\ elapsed = 0
    /\ armed = timer.remaining
    /\ restarted = FALSE
    /\ trues = 0

\* self._load_config(), and the timer set up from what it gives
LoadConfig ==
    /\ boot = "config" /\ error = ""
    /\ LET r == load_config(config_doc)
       IN /\ error' = r.err
          /\ custom_pomodoro' = r.custom_pomodoro
          /\ custom_break' = r.custom_break
          /\ timer' = ConfiguredTimer(r.custom_pomodoro, r.custom_break)
          /\ armed' = timer'.remaining
          /\ boot' = IF r.err = "" THEN "tasks" ELSE boot
    /\ op' = "load_config"
    /\ UNCHANGED <<dialog, ret, elapsed, restarted, trues, mode, statVars, taskVars, inputVars, tg,
                   tasks_doc, stats_doc, config_doc, fresh, peak>>

\* self.tasks = TaskStore(); self.tasks.load()
LoadTasks ==
    /\ boot = "tasks" /\ error = ""
    /\ LET r == TaskStore_load(tasks, tasks_doc)
       IN /\ error' = r.err
          /\ tasks' = r.tasks
          /\ boot' = IF r.err = "" THEN "stats" ELSE boot
    /\ op' = "load_tasks"
    /\ UNCHANGED <<dialog, timerVars, appVars, statVars, undo_cache, inputVars, tg,
                   tasks_doc, stats_doc, config_doc, fresh, peak>>

\* self.stats = StatsStore(); self.stats.load()
LoadStats ==
    /\ boot = "stats" /\ error = ""
    /\ LET r == StatsStore_load(stats, stats_doc)
       IN /\ error' = r.err
          /\ stats' = r.stats
          /\ stats_doc' = r.file
          /\ peak' = Max(peak, GetOr(r.stats, "current_streak", 0))
          /\ boot' = IF r.err = "" THEN "run" ELSE boot
    /\ op' = "load_stats"
    /\ UNCHANGED <<dialog, timerVars, appVars, today, taskVars, inputVars, tg,
                   tasks_doc, config_doc, fresh>>

NextBoot ==
    \/ LoadConfig
    \/ LoadTasks
    \/ LoadStats
    \/ CallRecordSession(DEFAULT_POMODORO)
    \/ CallRecordTaskCompletion(1)
    \/ CallDeductTaskScore(1)

SpecBoot == InitBoot /\ [][NextBoot]_vars

----------------------------------------------------------------------------
(* The application driven over its screens, with the timer: the pointer    *)
(* moves between Start, Instructions, Stats and Back, and frames end.      *)

NextScreenTimer ==
    \/ \E p \in {Btn("start")} \cup ModeButtons, far \in BOOLEAN : MouseMotion(p, far)
    \/ LeftDown(FALSE, <<>>, <<>>) /\ UNCHANGED dialog
    \/ LeftUp
    \/ \E dt \in Dts :
          /\ Tick(dt)
          /\ timer'.sessions_completed <= MaxSessions
          /\ UNCHANGED dialog

SpecScreenTimer == InitTimerApp /\ [][NextScreenTimer]_vars

----------------------------------------------------------------------------
(* The application driven over its screens, with the task list: the        *)
(* pointer moves between the places of the rows, Add Task, Instructions,   *)
(* Stats and Back.                                                         *)

NextScreenTasks ==
    \/ \E p \in TaskPositions \cup {Btn("add")} \cup ModeButtons, far \in BOOLEAN :
          MouseMotion(p, far)
    \/ \E quick \in BOOLEAN, task_res \in TaskDialogResults(TypedTexts, Scores) :
          /\ (quick => mouse.area \in {"box", "text"})
          /\ (task_res # <<>> => mouse.area \in {"box", "text", "add"})
          /\ LeftDown(quick, task_res, <<>>)
          /\ Len(tasks') + Len(undo_cache') <= MaxTasks
          /\ UNCHANGED dialog
    \/ LeftUp /\ PointsBounded'
    \/ \E yes \in BOOLEAN : RightDown(yes) /\ UNCHANGED dialog
    \/ CtrlZ

SpecScreenTasks == Init /\ [][NextScreenTasks]_vars

----------------------------------------------------------------------------
(* The application left to run: the main loop ends frame after frame, and  *)
(* clock.tick(FPS) makes a frame take time, so that frames of a positive   *)
(* dt keep coming; the user may press Start, Settings, Reset,              *)
(* Instructions and Back in between.                                       *)

\* a frame that took time ends
FrameEnds ==
    \E dt \in Dts \ {0} : Tick(dt) /\ UNCHANGED dialog

NextProgress ==
    \/ \E p \in TimerButtons \cup {Btn("instructions"), Btn("back")}, far \in BOOLEAN :
          MouseMotion(p, far)
    \/ \E set_res \in SettingsDialogResults :
          /\ (set_res # <<>> => mouse.area = "custom")
          /\ LeftDown(FALSE, <<>>, set_res)
          /\ (timer'.running => timer.sessions_completed < MaxRuns)
          /\ UNCHANGED dialog
    \/ LeftUp
    \/ Tick(0) /\ UNCHANGED dialog
    \/ FrameEnds

SpecProgress == InitTimerApp /\ [][NextProgress]_vars /\ WF_vars(FrameEnds)

----------------------------------------------------------------------------
(* The handlers with their dialogs spelt out: a handler that reaches a     *)
(* dialog stops there, the dialog runs and ends, and the handler goes on   *)
(* with what the dialog returned.  While the main thread is inside         *)
(* threaded_dialog or root.mainloop() it takes no further event.           *)

Closed == dialog.func = ""

\* threaded_dialog(func): the thread is started and the main thread pumps
threaded_dialog(func) ==
    [func |-> func, main |-> "pump", alive |-> TRUE, value |-> <<>>, pumps |-> 0,
     opened |-> dialog.opened + 1]

\* the "Delete Task?" window, built and run by the main thread itself
DeleteDialog ==
    [func |-> "delete", main |-> "mainloop", alive |-> TRUE, value |-> <<FALSE>>, pumps |-> 0,
     opened |-> dialog.opened + 1]

\* the dialog has returned to the handler that opened it
Returned == [NoDialog EXCEPT !.opened = dialog.opened]

\* the dialog a left press at the pointer opens, "" if it opens none
LeftDownDialog(quick) ==
    LET idx == task_at(tasks, mouse)
    IN IF mode = "SPLASH" \/ skip_next_click THEN ""
       ELSE IF idx # None /\ last_click_pos = idx /\ quick THEN "edit"
       ELSE IF mode = "MAIN" /\ idx = None /\ mouse.area = "custom" THEN "settings"
       ELSE IF mode = "MAIN" /\ idx = None /\ mouse.area = "add" THEN "add"
       ELSE ""

\* what the function run by the dialog thread may return
DialogResults(func) ==
    IF func \in {"edit", "add"} THEN TaskDialogResults(ScoreTexts, Scores)
    ELSE IF func = "settings" THEN SettingsDialogResults
    ELSE {<<>>}

\* a left press is handled up to its threaded_dialog call
LeftDownOpens(quick) ==
    /\ error = "" /\ ~pressed /\ Closed
    /\ dialog.opened < MaxOpened
    /\ LeftDownDialog(quick) # ""
    /\ dialog' = threaded_dialog(LeftDownDialog(quick))
    /\ mouse_down_pos' = mouse
    /\ op' = ""
    /\ UNCHANGED <<timerVars, appVars, statVars, taskVars, mouse, pressed, hover, dragging_task,
                   last_click_pos, skip_next_click, error, tg, storeVars, peak>>

\* while thread.is_alive(): pg.event.pump(); pg.time.wait(10)
PumpEvents ==
    /\ dialog.main = "pump" /\ dialog.alive
    /\ dialog.pumps < MaxPumps
    /\ dialog' = [dialog EXCEPT !.pumps = @ + 1]
    /\ op' = ""
    /\ UNCHANGED <<timerVars, appVars, statVars, taskVars, inputVars, error, tg, storeVars, peak>>

\* the dialog thread: result["value"] = func(...), and the thread ends
ThreadEnds(value) ==
    /\ dialog.main = "pump" /\ dialog.alive
    /\ value \in DialogResults(dialog.func)
    /\ dialog' = [dialog EXCEPT !.alive = FALSE, !.value = value]
    /\ op' = ""
    /\ UNCHANGED <<timerVars, appVars, statVars, taskVars, inputVars, error, tg, storeVars, peak>>

\* threaded_dialog returns result["value"] and the left press is handled to its end
LeftDownResumes ==
    /\ dialog.func \in {"edit", "add", "settings"} /\ ~dialog.alive
    /\ LeftDown(dialog.func = "edit",
                IF dialog.func = "settings" THEN <<>> ELSE dialog.value,
                IF dialog.func = "settings" THEN dialog.value ELSE <<>>)
    /\ Len(tasks') + Len(undo_cache') <= MaxTasks
    /\ dialog' = Returned

\* a left press that opens no dialog
LeftDownPlain(quick) ==
    /\ Closed
    /\ LeftDownDialog(quick) = ""
    /\ LeftDown(quick, <<>>, <<>>)
    /\ UNCHANGED dialog

\* a right press on a hovered task is handled up to root.mainloop()
RightDownOpens ==
    /\ error = "" /\ Closed
    /\ dialog.opened < MaxOpened
    /\ hover # None /\ mode = "MAIN"
    /\ dialog' = DeleteDialog
    /\ op' = ""
    /\ UNCHANGED <<timerVars, appVars, statVars, taskVars, inputVars, error, tg, storeVars, peak>>

\* yes() or no() is clicked: root.destroy() ends root.mainloop()
DeleteAnswered(yes) ==
    /\ dialog.func = "delete" /\ dialog.alive
    /\ dialog' = [dialog EXCEPT !.alive = FALSE, !.value = <<yes>>]
    /\ op' = ""
    /\ UNCHANGED <<timerVars, appVars, statVars, taskVars, inputVars, error, tg, storeVars, peak>>

\* root.mainloop() has returned and the right press is handled to its end
RightDownResumes ==
    /\ dialog.func = "delete" /\ ~dialog.alive
    /\ RightDown(dialog.value[1])
    /\ dialog' = Returned

\* a right press that opens no dialog
RightDownPlain ==
    /\ Closed
    /\ ~(hover # None /\ mode = "MAIN")
    /\ RightDown(FALSE)
    /\ UNCHANGED dialog

\* the timer update finds the phase complete and reaches threaded_dialog(Dialogs.finished)
TickOpens(dt) ==
    /\ error = "" /\ Closed
    /\ dialog.opened < MaxOpened
    /\ mode = "MAIN" /\ update(timer, dt).ret
    /\ timer' = update(timer, dt).timer
    /\ ret' = TRUE
    /\ dialog' = threaded_dialog("finished")
    /\ op' = ""
    /\ UNCHANGED <<elapsed, armed, restarted, trues, appVars, statVars, taskVars, inputVars,
                   error, tg, storeVars, peak>>

\* the notice is closed: the session is recorded and the timer moves on
TickResumes ==
    /\ dialog.func = "finished" /\ ~dialog.alive
    /\ stats' = record_session(stats, timer.total, today)
    /\ stats_doc' = StatsStore_save(stats')
    /\ peak' = Max(peak, stats'.current_streak)
    /\ timer' = NextPhase(timer, custom_pomodoro, custom_break)
    /\ Arm(timer')
    /\ dialog' = Returned
    /\ op' = ""
    /\ UNCHANGED <<ret, appVars, today, taskVars, inputVars, error,
                   tasks_doc, config_doc, boot, fresh>>
    /\ NotToggled

\* a timer update that completes no phase
TickPlain(dt) ==
    /\ Closed
    /\ ~(mode = "MAIN" /\ update(timer, dt).ret)
    /\ Tick(dt)
    /\ UNCHANGED dialog

NextDialog ==
    \/ \E p \in TaskPositions \cup {Btn("add"), Btn("custom"), Btn("start")}, far \in BOOLEAN :
          Closed /\ MouseMotion(p, far)
    \/ \E quick \in BOOLEAN : (quick => mouse.area \in {"box", "text"}) /\ LeftDownOpens(quick)
    \/ PumpEvents
    \/ \E value \in DialogResults("edit") : dialog.func \in {"edit", "add"} /\ ThreadEnds(value)
    \/ \E value \in DialogResults("settings") : dialog.func = "settings" /\ ThreadEnds(value)
    \/ dialog.func = "finished" /\ ThreadEnds(<<>>)
    \/ LeftDownResumes
    \/ \E quick \in BOOLEAN : (quick => mouse.area \in {"box", "text"}) /\ LeftDownPlain(quick)
    \/ Closed /\ LeftUp
    \/ RightDownOpens
    \/ \E yes \in BOOLEAN : DeleteAnswered(yes)
    \/ RightDownResumes
    \/ RightDownPlain
    \/ Closed /\ CtrlZ
    \/ \E dt \in Dts : TickOpens(dt)
    \/ TickResumes
    \/ \E dt \in Dts : TickPlain(dt)

\* the application with every dialog a step of its own
SpecDialog == Init /\ [][NextDialog]_vars

----------------------------------------------------------------------------
(* The claims *)

\* C1: record_session is invoked once per completed focus phase and never for
\* a completed break: total_sessions grows exactly as sessions_completed does.
C1_SessionsAreFocusPhases == stats.total_sessions = timer.sessions_completed

\* C2: complete_session() called when session_count = 4 leaves total = 1800
\* and session_count = 1, whatever the configured break length.
C2_FourthSessionLongBreak ==
    [][(CallCompleteSession /\ timer.session_count = 4)
         => (timer'.total = 1800 /\ timer'.session_count = 1)]_vars

\* a frame's end at which a running focus phase reaches zero
TickCompletesFocus(dt) ==
    /\ Tick(dt)
    /\ mode = "MAIN"
    /\ update(timer, dt).ret
    /\ ~timer.is_break

\* C3: with 1500 s focus and 300 s break, the tick loop's 4th focus completion
\* in a row leaves a break of 1800 s (total = remaining = 1800) with
\* session_count = 1 and sessions_completed = 4; the first three leave a break
\* of 300 s.
C3_FourthCompletionLongBreak ==
    [][\A dt \in Dts :
         (TickCompletesFocus(dt) /\ custom_pomodoro = 25 /\ custom_break = 5
             /\ timer.total = 1500)
         => /\ timer'.is_break
            /\ timer.session_count < 4
                  => timer'.total = 300 /\ timer'.remaining = 300
            /\ (timer.session_count = 4 /\ timer.sessions_completed = 3)
                  => /\ timer'.total = 1800 /\ timer'.remaining = 1800
                     /\ timer'.session_count = 1 /\ timer'.sessions_completed = 4]_vars

\* C4: complete_session() called when session_count < 4 leaves
\* total = custom_break * 60, session_count and sessions_completed one higher,
\* is_break true, remaining = total and running false.
C4_ShortBreak ==
    [][(CallCompleteSession /\ timer.session_count < 4)
         => /\ timer'.total = timer.custom_break * 60
            /\ timer'.session_count = timer.session_count + 1
            /\ timer'.sessions_completed = timer.sessions_completed + 1
            /\ timer'.is_break
            /\ timer'.remaining = timer'.total
            /\ ~timer'.running]_vars

\* complete_session has run at session_count = 2
C4_Witness ==
    /\ timer.is_break /\ timer.session_count = 3 /\ timer.sessions_completed = 2
    /\ timer.remaining = timer.total /\ timer.total = timer.custom_break * 60
    /\ ~timer.running

\* the countdown now under way began with remaining = total, as reset,
\* reset_full, start_focus_session and complete_session below session_count 4
\* begin it (complete_session at session_count 4 leaves remaining = 1800 beside
\* total = custom_break * 60, see C2), and start() has not been called since
\* update returned true
FreshCountdown == ~restarted /\ armed = timer.total

C6_NoIndexError == error = ""

\* the Settings button is pressed on the main screen and its dialog accepted
SettingsAccepted(set_res) ==
    /\ mode = "MAIN" /\ ~skip_next_click /\ mouse.area = "custom"
    /\ set_res # <<>>
    /\ LeftDown(FALSE, <<>>, set_res)

\* C7, as claimed: accepting a settings result while a countdown is in
\* progress leaves remaining, total and running unchanged.
C7_SettingsDeferred ==
    [][\A set_res \in SettingsDialogResults :
         (SettingsAccepted(set_res) /\ (timer.running \/ timer.remaining < timer.total))
         => /\ timer'.remaining = timer.remaining
            /\ timer'.total = timer.total
            /\ timer'.running = timer.running]_vars

\* C7, amended: accepting a settings result resets the timer at once, also in
\* the middle of a countdown: total and remaining become the new focus minutes
\* * 60 and running becomes false; default_session and custom_break take the
\* new values, and the phase and the session counters stay as they are.
C7_SettingsResetTimer ==
    [][\A set_res \in SettingsDialogResults :
         SettingsAccepted(set_res)
         => timer' = [timer EXCEPT !.total = set_res[1] * 60,
                                   !.remaining = set_res[1] * 60,
                                   !.running = FALSE,
                                   !.default_session = set_res[1] * 60,
                                   !.custom_break = set_res[2]]]_vars

\* settings were accepted during a break: the break now counts a focus length
C7_Witness ==
    /\ timer.is_break /\ timer.total = timer.default_session
    /\ timer.total # timer.custom_break * 60
    /\ timer.remaining = timer.total /\ ~timer.running

\* the task of the run has been toggled twice in a row
TwoToggles == tg.task # None /\ Len(tg.hist) = 2

\* C8, as claimed: whatever the task's complete flag and today's score, two
\* toggles in a row of the same task (so any even number of them) return
\* today's score to what it was before them.
C8_EvenTogglesRestore == TwoToggles => TodayScore = tg.hist[1]

\* C8, amended: two toggles in a row of the same task, on one day and with no
\* edit between them, return today's score to what it was before them when
\* the un-tick among them found an entry for today of at least the task's
\* score, so that neither a missing entry nor the floor at 0 cut it short.
C8_FullTogglesRestore ==
    (TwoToggles /\ ~tg.cl[1] /\ ~tg.cl[2]) => TodayScore = tg.hist[1]

\* two such toggles have happened, and the score moved in between
C8_Witness ==
    /\ TwoToggles /\ ~tg.cl[1] /\ ~tg.cl[2]
    /\ tg.hist[2] # tg.hist[1]
    /\ TodayScore = tg.hist[1]

\* C9: ticking an incomplete task of score s raises today's score by exactly
\* s, and un-ticking it next (same day, no edit between) returns today's score
\* to what it was before the tick.
C9_TickThenUntickRestores ==
    /\ (tg.task # None /\ tasks[tg.task].complete)
          => TodayScore = tg.hist[Len(tg.hist)] + tasks[tg.task].score
    /\ (TwoToggles /\ ~tasks[tg.task].complete) => TodayScore = tg.hist[1]

\* C10: every entry of daily_task_scores is >= 0.
C10_ScoresNonNegative ==
    \A d \in DOMAIN stats.daily_task_scores : stats.daily_task_scores[d] >= 0

\* C11: record_task_completion and deduct_task_score change nothing but the
\* daily_task_scores entry of the day of the call: the other days' entries,
\* daily_records and the counters stay as they are, and deduct_task_score
\* makes no entry for a day that has none.
C11_OnlyTodaysEntry ==
    [][\A score \in PointValues :
         (CallRecordTaskCompletion(score) \/ CallDeductTaskScore(score))
         => /\ DOMAIN stats' = DOMAIN stats
            /\ \A k \in DOMAIN stats \ {"daily_task_scores"} : stats'[k] = stats[k]
            /\ \A d \in 1..MaxDay \ {today} :
                  /\ d \in DOMAIN stats'.daily_task_scores <=> d \in DOMAIN stats.daily_task_scores
                  /\ Get(stats'.daily_task_scores, d) = Get(stats.daily_task_scores, d)
            /\ (CallDeductTaskScore(score) /\ today \notin DOMAIN stats.daily_task_scores)
                  => today \notin DOMAIN stats'.daily_task_scores]_vars

\* points were taken off on a day with no entry, after a day that has points
C11_Witness ==
    /\ op = "deduct_task_score"
    /\ today \notin DOMAIN stats.daily_task_scores
    /\ \E d \in DOMAIN stats.daily_task_scores : d < today /\ stats.daily_task_scores[d] > 0

\* C12: after every PomodoroTimer operation total > 0 and
\* 0 <= remaining <= total.
C12_RemainingWithinTotal ==
    timer.total > 0 /\ 0 <= timer.remaining /\ timer.remaining <= timer.total

\* C13: session_count is always in 1..4, and no step (the Reset button and
\* accepted settings among them) lowers sessions_completed.
C13_SessionCounters ==
    /\ [](timer.session_count \in 1..4)
    /\ [][timer'.sessions_completed >= timer.sessions_completed]_vars

\* the fourth focus phase has ended and session_count has cycled back to 1
C13_Witness ==
    timer.is_break /\ timer.session_count = 1 /\ timer.sessions_completed = 4

\* C14: longest_streak is the largest value current_streak has had, so it is
\* never below current_streak, and no step lowers current_streak.
C14_LongestStreak ==
    /\ [](stats.longest_streak = peak /\ stats.longest_streak >= stats.current_streak)
    /\ [][stats'.current_streak >= stats.current_streak]_vars

\* record_session has been called twice or more
C14_Witness ==
    op = "record_session" /\ stats.current_streak >= 2 /\ stats.longest_streak = stats.current_streak

\* a confirmed delete of the task under the pointer
Deleted == RightDown(TRUE) /\ op' = "delete"

\* C15: a confirmed delete pushes the task at the hovered index onto the undo
\* cache; Ctrl+Z pops the last task pushed and appends it unchanged at the end
\* of the list, so that undos restore in reverse order of deletion; with an
\* empty cache Ctrl+Z changes nothing.
C15_UndoLifo ==
    [][/\ Deleted => /\ undo_cache' = Append(undo_cache, tasks[hover])
                     /\ tasks' = Remove(tasks, hover)
       /\ (CtrlZ /\ undo_cache # <<>>)
             => /\ tasks' = Append(tasks, undo_cache[Len(undo_cache)])
                /\ undo_cache' = SubSeq(undo_cache, 1, Len(undo_cache) - 1)
       /\ (CtrlZ /\ undo_cache = <<>>) => UNCHANGED <<tasks, undo_cache, tasks_doc>>]_vars

\* two tasks were deleted and the one deleted last has been restored
C15_Witness ==
    op = "undo" /\ Len(undo_cache) = 1 /\ Len(tasks) = 1 /\ undo_cache[1] # tasks[1]

\* C16: the reorder from i to j puts the moved task at index j, keeps the
\* order of the other tasks, and is undone by the reorder from j to i.
C16_ReorderMoves ==
    [][\A i, j \in 1..MaxLen :
         CallReorder(i, j)
         => /\ tasks'[j] = tasks[i]
            /\ Remove(tasks', j) = Remove(tasks, i)
            /\ reorder(tasks', j, i) = tasks]_vars

\* a list of three different tasks has been reordered
C16_Witness ==
    /\ op = "reorder" /\ Len(tasks) = 3
    /\ tasks[1] # tasks[2] /\ tasks[2] # tasks[3] /\ tasks[1] # tasks[3]

\* C17: save() followed by load() on a fresh TaskStore gives the saved list.
C17_SaveLoadRoundTrip ==
    (fresh.loaded /\ fresh.after_save) => (fresh.err = "" /\ fresh.tasks = tasks)

\* a list with a task twice in it, ticked and of 5 points, has gone round
C17_Witness ==
    /\ fresh.loaded /\ fresh.after_save
    /\ Len(tasks) >= 2 /\ tasks[1] = tasks[2] /\ tasks[1].complete /\ tasks[1].score = 5

\* the empty list has gone round
C17_WitnessEmpty == fresh.loaded /\ fresh.after_save /\ tasks = <<>> /\ fresh.tasks = <<>>

C19_LoadBackfillsKeys ==
    /\ boot = "run" => AggregateKeys \subseteq DOMAIN stats
    /\ error # "KeyError"

\* C20: for each of the three files, loading finds no error and leaves the
\* defaults when the file is missing, and raises an error to the caller when
\* the file is malformed.
C20_MalformedIsAnError ==
    [][/\ LoadConfig => /\ config_doc = Garbage => error' # ""
                        /\ config_doc = NoFile
                              => /\ error' = ""
                                 /\ custom_pomodoro' = DEFAULT_POMODORO \div 60
                                 /\ custom_break' = 5
       /\ LoadTasks => /\ tasks_doc = Garbage => error' # ""
                       /\ tasks_doc = NoFile => (error' = "" /\ tasks' = <<>>)
       /\ LoadStats => /\ stats_doc = Garbage => error' # ""
                       /\ stats_doc = NoFile => (error' = "" /\ stats' = StatsStore_init)]_vars

\* the complete flags of the tasks, in list order
Flags(ts) == [i \in 1..Len(ts) |-> ts[i].complete]

\* C21: the second click of a double click on a task (the press that opens
\* the edit dialog, and the release that follows it) changes no task's
\* complete flag and leaves today's score as it was, wherever on the row it
\* lands.
C21_DoubleClickNoToggle ==
    [][(pressed' # pressed /\ skip_next_click')
          => (Flags(tasks') = Flags(tasks) /\ TodayScore' = TodayScore)]_vars

\* C22: a release over the task that was pressed, or over no task, leaves
\* the order of the list as it was, and when the press and the release are
\* both on that task's checkbox the task is toggled, whether or not the
\* pointer moved in between.
C22_SameRowIsPlainClick ==
    [][(/\ pressed /\ ~pressed'
        /\ task_at(tasks, mouse_down_pos) # None
        /\ task_at(tasks, mouse) \in {None, task_at(tasks, mouse_down_pos)}
        /\ error' = "")
          => /\ [i \in 1..Len(tasks') |-> [tasks'[i] EXCEPT !.complete = FALSE]]
                = [i \in 1..Len(tasks) |-> [tasks[i] EXCEPT !.complete = FALSE]]
             /\ (mouse_down_pos.area = "box" /\ mouse = mouse_down_pos /\ hover = mouse.row)
                   => Flags(tasks') = [Flags(tasks) EXCEPT ![mouse.row] = ~@]]_vars

\* a frame ends with the running timer reaching zero
PhaseCompletes == timer.running /\ ~timer'.running /\ pressed' = pressed

\* C23: when a phase completes in the timer update, the session recorded has
\* the length the timer's total had while the phase counted down (the value
\* the phase was armed with), not that of the phase that follows; after a
\* focus phase the timer is in a break with one more session completed, after
\* a break it is in a focus phase with no more sessions completed.
C23_RecordThenNextPhase ==
    /\ [](timer.total = armed)
    /\ [][PhaseCompletes
            => /\ stats'.total_focus_time = stats.total_focus_time + armed
               /\ stats' = record_session(stats, timer.total, today)
               /\ IF timer.is_break
                  THEN /\ ~timer'.is_break
                       /\ timer'.sessions_completed = timer.sessions_completed
                  ELSE /\ timer'.is_break
                       /\ timer'.sessions_completed = timer.sessions_completed + 1]_vars

\* a focus phase and the break after it have both completed, the two of
\* different lengths, and both lengths are in the total
C23_Witness ==
    /\ ret /\ ~timer.is_break /\ timer.sessions_completed = 1
    /\ custom_pomodoro # custom_break
    /\ stats.total_sessions = 2
    /\ stats.total_focus_time = (custom_pomodoro + custom_break) * 60

\* C24: every task in the list has a score of at least 1.
C24_TaskScoresPositive == \A i \in 1..Len(tasks) : tasks[i].score >= 1

\* while a dialog stays open, the timer, the task list, the undo cache and
\* the stats stay as they are, and a handler goes on only once the dialog has
\* ended
DialogBlocksMutation ==
    /\ [][(~Closed /\ ~Closed') => UNCHANGED <<timer, tasks, undo_cache, stats>>]_vars
    /\ [][(~Closed /\ Closed') => ~dialog.alive]_vars

\* C25: while a modal dialog is open nothing changes the timer, the task
\* list, the undo cache or the stats; the dialog's result is read only once
\* the dialog has ended; and the main thread is meanwhile in the loop that
\* pumps the events, waiting for the dialog's thread.
C25_DialogBlocks ==
    /\ DialogBlocksMutation
    /\ [](~Closed => dialog.main = "pump")

\* C26: a step taken while the screen is not the main screen, the end of a
\* frame with the timer running included, changes no field of the timer and
\* records no session.
C26_TimerOnlyOnMain ==
    [][mode # "MAIN" => (timer' = timer /\ stats' = stats /\ ret' = ret)]_vars

\* a countdown under way, left running, and another screen shown
C26_Witness ==
    /\ mode \in {"INSTRUCTIONS", "STATS"}
    /\ timer.running /\ 0 < timer.remaining /\ timer.remaining < timer.total

\* how often each task occurs in a list
BagOf(ts) == [x \in {ts[i] : i \in 1..Len(ts)} |-> Cardinality({i \in 1..Len(ts) : ts[i] = x})]

\* the indices at which two lists of one length differ
Changed(ts, us) == {i \in 1..Len(ts) : ts[i] # us[i]}

\* C27: the tasks of the list and of the undo cache together are changed
\* only by an add, which puts one new task at the end of the list, and by an
\* edit, which replaces the text and score of one task; a toggle flips one
\* task's flag, and a reorder, a delete and an undo only move tasks, so the
\* two lengths together change only by one, on an add.
C27_TasksConserved ==
    [][LET all == tasks \o undo_cache
           all2 == tasks' \o undo_cache'
       IN /\ Len(all2) = Len(all) \/ (op' = "add" /\ Len(all2) = Len(all) + 1)
          /\ op' = "" => all2 = all
          /\ op' \in {"reorder", "delete", "undo"} => BagOf(all2) = BagOf(all)
          /\ op' = "add" => SubSeq(all2, 1, Len(tasks)) = tasks /\ undo_cache' = undo_cache
          /\ op' \in {"toggle", "edit"}
                => /\ Len(all2) = Len(all)
                   /\ Cardinality(Changed(all, all2)) <= 1
                   /\ \A i \in Changed(all, all2) :
                         IF op' = "toggle"
                         THEN all2[i] = [all[i] EXCEPT !.complete = ~@]
                         ELSE all2[i].complete = all[i].complete]_vars

\* a task has been deleted while another stays in the list
C27_Witness == op = "delete" /\ undo_cache # <<>> /\ tasks # <<>>

\* C28: a step taken while the screen is not the main screen changes neither
\* the task list nor the undo cache nor the stats.
C28_ScreenIsolation ==
    [][mode # "MAIN" => UNCHANGED <<tasks, undo_cache, stats>>]_vars

\* C29: the timer's total matches its phase: in a focus phase it is the
\* default session, which is the configured focus length; in a break it is the
\* configured break length or the long break.
C29_TotalMatchesPhase ==
    IF timer.is_break
    THEN timer.total \in {custom_break * 60, LONG_BREAK}
    ELSE timer.total = timer.default_session /\ timer.default_session = custom_pomodoro * 60

\* C30: once the timer runs on the main screen, either a button is pressed
\* or the phase completes; the frame that completes a phase flips is_break
\* and leaves the timer stopped with remaining equal to total; and a stopped
\* timer starts only by a press of Start and does not count meanwhile.
C30_Progress ==
    /\ (timer.running /\ mode = "MAIN")
          ~> (pressed \/ (ret /\ ~timer.running /\ timer.remaining = timer.total))
    /\ [][PhaseCompletes
            => /\ timer'.is_break = ~timer.is_break
               /\ ~timer'.running
               /\ timer'.remaining = timer'.total]_vars
    /\ [][~timer.running
            => /\ timer'.running => (~pressed /\ pressed' /\ mouse.area = "start")
               /\ pressed' = pressed => timer' = timer]_vars

\* a focus phase and a break have run to their ends, and the timer waits
C30_Witness ==
    /\ ret /\ ~timer.running /\ ~timer.is_break /\ timer.remaining = timer.total
    /\ timer.sessions_completed = 1 /\ stats.total_sessions = 2
    /\ mode = "MAIN" /\ ~pressed

====
